---- MODULE Spec2Model ----
(***************************************************************************)
(* Model of poefixer's currency pricing engine                             *)
(* (fixer/postprocessing/processor.py) and of the ingestion writer         *)
(* (fixer/database.py, scripts/api_script.py).                             *)
(*                                                                         *)
(* Floating point values (prices, means, weights) are modelled as exact    *)
(* rationals <<n, d>> with d > 0 in lowest terms.  Python's None is        *)
(* modelled by a typed sentinel: NoneInt for integers, NoneRat for floats, *)
(* NoneStr for strings.  A standard deviation is stored as its square (the *)
(* weighted population variance); sqrt is a monotone bijection on the      *)
(* non-negative reals, so equalities and order comparisons of standard     *)
(* deviations are those of the variances.                                  *)
(***************************************************************************)
EXTENDS Integers, Sequences, FiniteSets, TLC

VARIABLES
    now,            \* int(time.time()), seconds since the model's epoch
    stashes,        \* table stash   (committed by the ingestion process)
    items,          \* table item    (committed by the ingestion process)
    sales,          \* table sale, as seen by the driver's session
    summaries,      \* table currency_summary, as seen by the driver's session
    cSales,         \* table sale, last committed content
    cSummaries,     \* table currency_summary, last committed content
    cfg,            \* CurrencyPostprocessor constructor arguments
    drv,            \* locals of do_currency_postprocessor/_single_pass
    hist,           \* history of the run (observation only)
    probe           \* input and result of a directly applied function

vars == <<now, stashes, items, sales, summaries, cSales, cSummaries,
          cfg, drv, hist, probe>>

-----------------------------------------------------------------------------
(* Bounds *)

MaxWeight == 3      \* largest weight of a drawn currency_summary row
MaxIngest == 2      \* stash snapshots the ingestion process delivers
MaxRestarts == 1    \* times the driver process is started again
MaxPasses == 2      \* passes one driver process starts
MaxPageRows == 11   \* rows of the page processed under SpecPage
PageMaxTime == 5    \* last value of the clock under SpecPage

-----------------------------------------------------------------------------
(* Python None *)

NoneInt == -1
NoneRat == <<0, 0>>
NoneStr == "None"

-----------------------------------------------------------------------------
(* Exact arithmetic standing for Python floats *)

Abs(n) == IF n < 0 THEN -n ELSE n

RECURSIVE GCD(_, _)
GCD(a, b) == IF b = 0 THEN a ELSE GCD(b, a % b)

Rat(n, d) ==
    LET g == GCD(Abs(n), Abs(d))
        s == IF d < 0 THEN -1 ELSE 1
    IN  <<(s * n) \div g, (s * d) \div g>>

RInt(n) == <<n, 1>>
\* products and sums cancel common factors first, as the values stay small
RMul(a, b) ==
    LET g == GCD(Abs(a[1]), b[2])
        h == GCD(Abs(b[1]), a[2])
    IN  Rat((a[1] \div g) * (b[1] \div h), (a[2] \div h) * (b[2] \div g))
RDiv(a, b) == RMul(a, IF b[1] < 0 THEN <<-b[2], -b[1]>> ELSE <<b[2], b[1]>>)
RAdd(a, b) ==
    LET g == GCD(a[2], b[2])
    IN  Rat(a[1] * (b[2] \div g) + b[1] * (a[2] \div g),
            (a[2] \div g) * b[2])
RSub(a, b) == RAdd(a, <<-b[1], b[2]>>)
\* the common factor of the denominators that a comparison cancels
RCommon(a, b) == IF a[2] = 0 \/ b[2] = 0 THEN 1 ELSE GCD(a[2], b[2])
RLt(a, b) ==
    a[1] * (b[2] \div RCommon(a, b)) < b[1] * (a[2] \div RCommon(a, b))
RLe(a, b) ==
    a[1] * (b[2] \div RCommon(a, b)) <= b[1] * (a[2] \div RCommon(a, b))
RMin(a, b) == IF RLe(a, b) THEN a ELSE b
RZero == <<0, 1>>

\* Python truthiness of an Optional[float]: None and 0.0 are false
Truthy(x) == x # NoneRat /\ x[1] # 0

-----------------------------------------------------------------------------
(* Names *)

Hub == "Chaos Orb"

-----------------------------------------------------------------------------
(* Conversion resolver: CurrencyPostprocessor.find_value_of *)

\* rows of the first query: from_currency = name, league = league
FromRows(table, name, league) ==
    {r \in table : r.from_currency = name /\ r.league = league}

\* query2 / the reverse query: .one_or_none() on the unique triple
OneOrNone(table, from, to, league) ==
    {r \in table : r.from_currency = from /\ r.to_currency = to
                   /\ r.league = league}

\* order_by(weight.desc()): every order of the rows the database may
\* return; rows of equal weight come in any order
WeightDescOrders(rows) ==
    {s \in [1..Cardinality(rows) -> rows] :
        /\ \A i, j \in 1..Cardinality(rows) : i # j => s[i] # s[j]
        /\ \A i, j \in 1..Cardinality(rows) :
              i < j => RLe(s[j].weight, s[i].weight)}

\* ScanRow with the direct row accepted only above the best score
ScanRow_StrictDirect(table, league, st, row) ==
    IF st.stop THEN st
    ELSE IF row.to_currency = Hub
    THEN IF ~Truthy(st.high_score) \/ RLt(st.high_score, row.weight)
         THEN [high_score |-> row.weight, conversion |-> row.mean,
               stop |-> TRUE]
         ELSE [st EXCEPT !.stop = TRUE]
    ELSE IF Truthy(st.high_score) /\ RLe(row.weight, st.high_score)
    THEN st
    ELSE LET row2s == OneOrNone(table, row.to_currency, Hub, league)
         IN  IF row2s = {} THEN st
             ELSE LET row2 == CHOOSE r \in row2s : TRUE
                      score == RMin(row.weight, row2.weight)
                  IN  IF ~Truthy(st.high_score) \/ RLt(st.high_score, score)
                      THEN [high_score |-> score,
                            conversion |-> RMul(row.mean, row2.mean),
                            stop |-> FALSE]
                      ELSE st

\* ScanRow with the loop left at the first path found
ScanRow_StopAtFirstPath(table, league, st, row) ==
    IF st.stop THEN st
    ELSE IF row.to_currency = Hub
    THEN IF ~Truthy(st.high_score) \/ RLe(st.high_score, row.weight)
         THEN [high_score |-> row.weight, conversion |-> row.mean,
               stop |-> TRUE]
         ELSE [st EXCEPT !.stop = TRUE]
    ELSE IF Truthy(st.high_score) /\ RLe(row.weight, st.high_score)
    THEN st
    ELSE LET row2s == OneOrNone(table, row.to_currency, Hub, league)
         IN  IF row2s = {} THEN st
             ELSE LET row2 == CHOOSE r \in row2s : TRUE
                      score == RMin(row.weight, row2.weight)
                  IN  IF ~Truthy(st.high_score) \/ RLt(st.high_score, score)
                      THEN [high_score |-> score,
                            conversion |-> RMul(row.mean, row2.mean),
                            stop |-> TRUE]
                      ELSE st

\* the for-loop body over one row; st = [high_score, conversion, stop]
ScanRow(table, league, st, row) ==
    IF st.stop THEN st
    ELSE IF row.to_currency = Hub
    THEN IF ~Truthy(st.high_score) \/ RLe(st.high_score, row.weight)
         THEN [high_score |-> row.weight, conversion |-> row.mean,
               stop |-> TRUE]
         ELSE [st EXCEPT !.stop = TRUE]
    ELSE IF Truthy(st.high_score) /\ RLe(row.weight, st.high_score)
    THEN st
    ELSE LET row2s == OneOrNone(table, row.to_currency, Hub, league)
         IN  IF row2s = {} THEN st
             ELSE LET row2 == CHOOSE r \in row2s : TRUE
                      score == RMin(row.weight, row2.weight)
                  IN  IF ~Truthy(st.high_score) \/ RLt(st.high_score, score)
                      THEN [high_score |-> score,
                            conversion |-> RMul(row.mean, row2.mean),
                            stop |-> FALSE]
                      ELSE st

RECURSIVE Scan(_, _, _, _, _)
Scan(table, league, st, order, i) ==
    IF i > Len(order) THEN st
    ELSE Scan(table, league, ScanRow(table, league, st, order[i]),
              order, i + 1)

ScanStart == [high_score |-> NoneRat, conversion |-> NoneRat, stop |-> FALSE]

\* FindWith with the reverse row tried before the forward paths
FindWith_ReverseFirst(table, name, league, price, order) ==
    IF name = Hub THEN [err |-> FALSE, value |-> price]
    ELSE LET st == Scan(table, league, ScanStart, order, 1)
             rev == OneOrNone(table, Hub, name, league)
         IN  IF rev # {}
             THEN LET row == CHOOSE r \in rev : TRUE
                  IN  IF row.mean[1] = 0
                      THEN [err |-> TRUE, value |-> NoneRat]
                      ELSE [err |-> FALSE,
                            value |-> RMul(RDiv(RInt(1), row.mean), price)]
             ELSE IF Truthy(st.high_score)
             THEN [err |-> FALSE, value |-> RMul(st.conversion, price)]
             ELSE [err |-> FALSE, value |-> NoneRat]

\* FindWith without the shortcut for the hub currency
FindWith_NoShortcut(table, name, league, price, order) ==
    LET st == Scan(table, league, ScanStart, order, 1)
    IN  IF Truthy(st.high_score)
        THEN [err |-> FALSE, value |-> RMul(st.conversion, price)]
        ELSE LET rev == OneOrNone(table, Hub, name, league)
             IN  IF rev = {} THEN [err |-> FALSE, value |-> NoneRat]
                 ELSE LET row == CHOOSE r \in rev : TRUE
                      IN  IF row.mean[1] = 0
                          THEN [err |-> TRUE, value |-> NoneRat]
                          ELSE [err |-> FALSE,
                                value |-> RMul(RDiv(RInt(1), row.mean),
                                               price)]

\* the value returned for one order of the first query; "ZeroDivisionError"
\* is modelled by the tag err
FindWith(table, name, league, price, order) ==
    IF name = Hub THEN [err |-> FALSE, value |-> price]
    ELSE LET st == Scan(table, league, ScanStart, order, 1)
         IN  IF Truthy(st.high_score)
             THEN [err |-> FALSE, value |-> RMul(st.conversion, price)]
             ELSE LET rev == OneOrNone(table, Hub, name, league)
                  IN  IF rev = {} THEN [err |-> FALSE, value |-> NoneRat]
                      ELSE LET row == CHOOSE r \in rev : TRUE
                           IN  IF row.mean[1] = 0
                               THEN [err |-> TRUE, value |-> NoneRat]
                               ELSE [err |-> FALSE,
                                     value |-> RMul(RDiv(RInt(1), row.mean),
                                                    price)]

\* every outcome find_value_of can have
find_value_of(table, name, league, price) ==
    {FindWith(table, name, league, price, o) :
        o \in WeightDescOrders(FromRows(table, name, league))}

-----------------------------------------------------------------------------
(* Note parser: CurrencyPostprocessor.parse_note                            *)
(*                                                                         *)
(* A note is modelled by what the parser can see in it:                    *)
(*   k    "none"  the column is NULL                                      *)
(*        "empty" the empty string                                         *)
(*        "plain" text that does not start with '~' and holds no price     *)
(*        "tilde" text that starts with '~' and PRICE_RE does not match    *)
(*        "price" text that starts with '~' and PRICE_RE matches           *)
(*   form "dec" a decimal amount num, "frac" a fraction num/den,           *)
(*        "bad" amount text float() rejects                                *)
(*   tok  the lower-cased currency group of PRICE_RE                       *)
(*   tok2 the lower-cased currency group of PRICE_WITH_SPACE_RE, or ""    *)
(*        when that pattern does not match the note                        *)
(***************************************************************************)

Note(k, form, num, den, tok, tok2) ==
    [k |-> k, form |-> form, num |-> num, den |-> den,
     tok |-> tok, tok2 |-> tok2]

NullNote == Note("none", "dec", 0, 1, "", "")
EmptyNote == Note("empty", "dec", 0, 1, "", "")
PlainNote == Note("plain", "dec", 0, 1, "", "")
TildeNote == Note("tilde", "dec", 0, 1, "", "")
PriceNote(num, tok) == Note("price", "dec", num, 1, tok, "")

\* static lexicons of currency_abbreviations (token -> canonical name)
OFFICIAL_CURRENCIES ==
    [t \in {"chaos", "exa"} |->
        IF t = "chaos" THEN "Chaos Orb" ELSE "Exalted Orb"]

UNOFFICIAL_CURRENCIES ==
    [t \in {"c", "ex"} |-> IF t = "c" THEN "Chaos Orb" ELSE "Exalted Orb"]

\* low(name), dashed(low(name)), dashed_clean(low(name)) of get_actual_currencies
NameKeys(name) ==
    CASE name = "Chaos Orb" -> {"chaos orb", "chaos-orb"}
      [] name = "Exalted Orb" -> {"exalted orb", "exalted-orb"}
      [] name = "Divine Vessel" -> {"divine vessel", "divine-vessel"}
      [] name = "Iron Ring" -> {"iron ring", "iron-ring"}
      [] OTHER -> {name}

\* get_actual_currencies: the mapping, as the set of <<key, full name>>
get_actual_currencies(table) ==
    UNION {{<<k, r.from_currency>> : k \in NameKeys(r.from_currency)} :
              r \in table}

ActualKeys(actual) == {p[1] : p \in actual}
ActualName(actual, key) == (CHOOSE p \in actual : p[1] = key)[2]

NoPrice == [err |-> "", price |-> NoneRat, currency |-> NoneStr,
            warned |-> FALSE, tries |-> 1]

\* the lexicon lookup of one match; retry = FALSE when regex is given
RECURSIVE ParseMatch(_, _, _, _)
ParseMatch(note, tok, actual, retry) ==
    IF note.form = "frac" /\ note.den = 0
    THEN [NoPrice EXCEPT !.err = "ZeroDivisionError"]
    ELSE IF note.form = "bad" THEN NoPrice
    ELSE LET amt == Rat(note.num, note.den)
             hit(cur) == [err |-> "", price |-> amt, currency |-> cur,
                          warned |-> FALSE, tries |-> 1]
         IN  IF tok \in DOMAIN OFFICIAL_CURRENCIES
             THEN hit(OFFICIAL_CURRENCIES[tok])
             ELSE IF tok \in DOMAIN UNOFFICIAL_CURRENCIES
             THEN hit(UNOFFICIAL_CURRENCIES[tok])
             ELSE IF tok \in ActualKeys(actual)
             THEN hit(ActualName(actual, tok))
             ELSE IF tok # ""
             THEN IF retry
                  THEN IF note.tok2 = "" THEN [NoPrice EXCEPT !.tries = 2]
                       ELSE [ParseMatch(note, note.tok2, actual, FALSE)
                                EXCEPT !.tries = 2]
                  ELSE [NoPrice EXCEPT !.warned = TRUE]
             ELSE NoPrice

parse_note(note, actual) ==
    IF note.k = "price" THEN ParseMatch(note, note.tok, actual, TRUE)
    ELSE NoPrice

-----------------------------------------------------------------------------
(* Weighted statistics: CurrencyPostprocessor._get_mean_and_std *)

relevant == 1296000
weight_increment == 43200

Max(a, b) == IF a < b THEN b ELSE a

ItemOf(itemTable, id) == CHOOSE i \in itemTable : i.id = id

\* Sample with only a zero age replaced by 1
Sample_Signed(s, sale_time) ==
    [id |-> s.item_id, price |-> s.sale_amount,
     weight |-> Rat(weight_increment,
                    IF sale_time = s.item_updated_at THEN 1
                    ELSE sale_time - s.item_updated_at)]

\* one sample: <<sale_amount, weight>>
Sample(s, sale_time) ==
    [id |-> s.item_id, price |-> s.sale_amount,
     weight |-> Rat(weight_increment, Max(1, sale_time - s.item_updated_at))]

\* sum of the values of a set of <<id, value>> pairs
RECURSIVE RSum(_)
RSum(S) ==
    IF S = {} THEN RZero
    ELSE LET x == CHOOSE y \in S : TRUE
         IN  RAdd(x[2], RSum(S \ {x}))

\* (x - mean)**2
Sq(d) == RMul(d, d)

\* numpy.average((values-mean)**2, weights=weights), the weights summing to
\* W; each weight is divided by W before the product, as the values stay
\* small
WeightedVariance(samples, W, mean) ==
    [mean |-> mean,
     variance |-> RSum({<<x.id, RMul(Sq(RSub(x.price, mean)),
                                     RDiv(x.weight, W))>> : x \in samples}),
     weight |-> W]

\* numpy.average(values, weights=weights), the weights summing to W
WeightedMean(samples, W) ==
    WeightedVariance(samples, W,
                     RSum({<<x.id, RMul(x.price, RDiv(x.weight, W))>> :
                              x \in samples}))

\* calc_mean_std, with weights.sum(); the variance stands for stddev
calc_mean_std(samples) ==
    WeightedMean(samples, RSum({<<x.id, x.weight>> : x \in samples}))

\* stddev > mean/2, on the squares
LargeStddev(st) ==
    \/ st.mean[1] < 0
    \/ RLt(Sq(st.mean), RMul(RInt(4), st.variance))

\* numpy.absolute(prices-mean) <= stddev*2, on the squares
PriceOk(x, st) ==
    RLe(Sq(RSub(x.price, st.mean)), RMul(RInt(4), st.variance))

NoStats == [none |-> TRUE, mean |-> NoneRat, variance |-> NoneRat,
            weight |-> NoneRat, count |-> 0]

\* the samples kept: those within two stddev when the spread is large
Recalibrate(values, st) ==
    IF Cardinality(values) > 3 /\ LargeStddev(st)
    THEN {x \in values : PriceOk(x, st)}
    ELSE values

\* (float(mean), float(stddev), float(total_weight), count)
Stats(kept, st) ==
    [none |-> FALSE, mean |-> st.mean, variance |-> st.variance,
     weight |-> st.weight, count |-> Cardinality(kept)]

StatsOf(kept) == Stats(kept, calc_mean_std(kept))

\* _get_mean_and_std without the filter on the league of the Item
_get_mean_and_std_AnyLeague(saleTable, itemTable, name, currency, league, sale_time, t) ==
    LET rows == {s \in saleTable :
                    /\ s.name = name
                    /\ s.sale_currency = currency
                    /\ s.item_updated_at > t - relevant}
        values == {Sample(s, sale_time) : s \in rows}
    IN  IF values = {} THEN NoStats
        ELSE StatsOf(Recalibrate(values, calc_mean_std(values)))

_get_mean_and_std(saleTable, itemTable, name, currency, league, sale_time, t) ==
    LET rows == {s \in saleTable :
                    /\ s.name = name
                    /\ ItemOf(itemTable, s.item_id).league = league
                    /\ s.sale_currency = currency
                    /\ s.item_updated_at > t - relevant}
        values == {Sample(s, sale_time) : s \in rows}
    IN  IF values = {} THEN NoStats
        ELSE StatsOf(Recalibrate(values, calc_mean_std(values)))

-----------------------------------------------------------------------------
(* Summary store: CurrencyPostprocessor._update_currency_summary *)

\* "count >= 10" of the staleness cache
CacheCount == 10

\* the staleness-cache test; recent = NoneInt disables it, and so does 0
CacheHit(existing, t, recent) ==
    /\ recent # NoneInt /\ recent # 0
    /\ existing # {}
    /\ \A e \in existing :
          e.count >= CacheCount /\ e.updated_at >= t - recent

StoreSummary_AlwaysInsert(table, existing, name, currency, league, st, t) ==
    IF st.none THEN table
    ELSE table \cup
         {[from_currency |-> name, to_currency |-> currency,
           league |-> league, count |-> st.count, mean |-> st.mean,
           weight |-> st.weight, variance |-> st.variance,
           created_at |-> t, updated_at |-> t]}

StoreSummary_WriteEmpty(table, existing, name, currency, league, st, t) ==
    IF existing # {}
    THEN {IF r \in existing
          THEN [r EXCEPT !.count = st.count, !.mean = st.mean,
                         !.weight = st.weight, !.variance = st.variance,
                         !.updated_at = t]
          ELSE r : r \in table}
    ELSE table \cup
         {[from_currency |-> name, to_currency |-> currency,
           league |-> league, count |-> st.count, mean |-> st.mean,
           weight |-> st.weight, variance |-> st.variance,
           created_at |-> t, updated_at |-> t]}

\* the update or insert of the row with the statistics st
StoreSummary(table, existing, name, currency, league, st, t) ==
    IF st.none THEN table
    ELSE IF existing # {}
    THEN {IF r \in existing
          THEN [r EXCEPT !.count = st.count, !.mean = st.mean,
                         !.weight = st.weight, !.variance = st.variance,
                         !.updated_at = t]
          ELSE r : r \in table}
    ELSE table \cup
         {[from_currency |-> name, to_currency |-> currency,
           league |-> league, count |-> st.count, mean |-> st.mean,
           weight |-> st.weight, variance |-> st.variance,
           created_at |-> t, updated_at |-> t]}

_update_currency_summary(table, saleTable, itemTable, name, currency, league, sale_time, t, recent) ==
    LET existing == OneOrNone(table, name, currency, league)
    IN  IF CacheHit(existing, t, recent) THEN table
        ELSE StoreSummary(table, existing, name, currency, league,
                          _get_mean_and_std(saleTable, itemTable, name,
                                            currency, league, sale_time, t),
                          t)

-----------------------------------------------------------------------------
(* Per-row processing: CurrencyPostprocessor._process_sale *)

\* str.startswith('~')
StartsWithTilde(note) == note.k \in {"tilde", "price"}

\* Python truthiness of a note column: None and '' are false
NoteTruthy(note) == note.k \notin {"none", "empty"}

\* (row.Item.name + " " + row.Item.typeLine).strip()
JoinStrip(name, typeLine) ==
    IF name = "" THEN typeLine
    ELSE IF name = "Doom Knot" /\ typeLine = "Iron Ring"
    THEN "Doom Knot Iron Ring"
    ELSE IF name = "Doom Knot" /\ typeLine = "Exalted Orb"
    THEN "Doom Knot Exalted Orb"
    ELSE "Doom Knot Divine Vessel"

DisplayName(item) ==
    IF item.is_currency THEN item.typeLine
    ELSE JoinStrip(item.name, item.typeLine)

\* UpsertSale that never finds the Sale of the item
UpsertSale_AlwaysNew(saleTable, item, name, currency, price) ==
    [id |-> Cardinality(saleTable) + 1,
     item_id |-> item.id, item_api_id |-> item.api_id,
     name |-> name, is_currency |-> item.is_currency,
     sale_currency |-> currency, sale_amount |-> price,
     sale_amount_chaos |-> NoneRat,
     item_updated_at |-> item.updated_at]

\* UpsertSale that leaves the chaos value of an existing Sale as it is
UpsertSale_KeepChaos(saleTable, item, name, currency, price) ==
    LET existing == {s \in saleTable : s.item_id = item.id}
    IN  IF existing = {}
        THEN [id |-> Cardinality(saleTable) + 1,
              item_id |-> item.id, item_api_id |-> item.api_id,
              name |-> name, is_currency |-> item.is_currency,
              sale_currency |-> currency, sale_amount |-> price,
              sale_amount_chaos |-> NoneRat,
              item_updated_at |-> item.updated_at]
        ELSE [(CHOOSE s \in existing : TRUE) EXCEPT
                 !.sale_currency = currency, !.sale_amount = price,
                 !.item_updated_at = item.updated_at]

\* UpsertSale that leaves item_updated_at of an existing Sale as it is
UpsertSale_KeepStamp(saleTable, item, name, currency, price) ==
    LET existing == {s \in saleTable : s.item_id = item.id}
    IN  IF existing = {}
        THEN [id |-> Cardinality(saleTable) + 1,
              item_id |-> item.id, item_api_id |-> item.api_id,
              name |-> name, is_currency |-> item.is_currency,
              sale_currency |-> currency, sale_amount |-> price,
              sale_amount_chaos |-> NoneRat,
              item_updated_at |-> item.updated_at]
        ELSE [(CHOOSE s \in existing : TRUE) EXCEPT
                 !.sale_currency = currency, !.sale_amount = price,
                 !.sale_amount_chaos = NoneRat]

\* the Sale row after the insert/update branch: the Sale found by item id,
\* or a new one, whose id is the next autoincrement value.
\* The columns created_at and updated_at of a Sale are written here and
\* read nowhere; the model leaves them out.
UpsertSale(saleTable, item, name, currency, price) ==
    LET existing == {s \in saleTable : s.item_id = item.id}
    IN  IF existing = {}
        THEN [id |-> Cardinality(saleTable) + 1,
              item_id |-> item.id, item_api_id |-> item.api_id,
              name |-> name, is_currency |-> item.is_currency,
              sale_currency |-> currency, sale_amount |-> price,
              sale_amount_chaos |-> NoneRat,
              item_updated_at |-> item.updated_at]
        ELSE [(CHOOSE s \in existing : TRUE) EXCEPT
                 !.sale_currency = currency, !.sale_amount = price,
                 !.sale_amount_chaos = NoneRat,
                 !.item_updated_at = item.updated_at]

\* session.add / session.merge: the row is written under its primary key
PutSale(saleTable, sale) ==
    {s \in saleTable : s.id # sale.id} \cup {sale}

Outcome(err, saleTable, table, row_id) ==
    [err |-> err, sales |-> saleTable, summaries |-> table,
     row_id |-> row_id]

\* find_value_of on the summaries the pricing left: <<table, outcome>>
PricingOf(table1, currency, league, price) ==
    {[table |-> table1, err |-> v.err, value |-> v.value] :
        v \in find_value_of(table1, currency, league, price)}

\* _update_currency_pricing that resolves on the table as it was before the
\* summary update
_update_currency_pricing_ResolveFirst(table, saleTable, itemTable, item, name, currency, price, t, recent) ==
    {[table |-> IF item.is_currency
                THEN _update_currency_summary(table, saleTable, itemTable,
                                              name, currency, item.league,
                                              item.updated_at, t, recent)
                ELSE table,
      err |-> v.err, value |-> v.value] :
        v \in find_value_of(table, currency, item.league, price)}

\* every outcome of _update_currency_pricing
_update_currency_pricing(table, saleTable, itemTable, item, name, currency, price, t, recent) ==
    PricingOf(IF item.is_currency
              THEN _update_currency_summary(table, saleTable, itemTable, name,
                                            currency, item.league,
                                            item.updated_at, t, recent)
              ELSE table,
              currency, item.league, price)

\* the part of _process_sale after the price is known and not zero
PricedRow(item, saleTable, table, itemTable, name, currency, price, t, recent) ==
    LET sale == UpsertSale(saleTable, item, name, currency, price)
        sales1 == PutSale(saleTable, sale)
    IN  {IF p.err
         THEN Outcome("ZeroDivisionError", sales1, p.table, NoneInt)
         ELSE IF p.value = NoneRat
         THEN Outcome("", sales1, p.table, sale.id)
         ELSE Outcome("",
                PutSale(sales1, [sale EXCEPT !.sale_amount_chaos = p.value]),
                p.table, sale.id) :
            p \in _update_currency_pricing(table, sales1, itemTable, item,
                                           name, currency, price, t, recent)}

\* the part of _process_sale after both notes are parsed (sp, ip)
ParsedRow(item, saleTable, table, itemTable, sp, ip, t, recent) ==
    LET price == IF ip.price = NoneRat THEN sp.price ELSE ip.price
        currency == IF ip.price = NoneRat THEN sp.currency ELSE ip.currency
    IN  IF sp.err # ""
        THEN {Outcome(sp.err, saleTable, table, NoneInt)}
        ELSE IF ip.err # ""
        THEN {Outcome(ip.err, saleTable, table, NoneInt)}
        ELSE IF price = NoneRat \/ price[1] = 0
        THEN {Outcome("", saleTable, table, NoneInt)}
        ELSE PricedRow(item, saleTable, table, itemTable, DisplayName(item),
                       currency, price, t, recent)

\* every outcome of _process_sale(row); err # "" is an exception raised
\* out of the call (the session then holds the writes made before it)
_process_sale(row, saleTable, table, itemTable, actual, t, recent) ==
    IF ~StartsWithTilde(row.Item.note) /\ row.stash.k = "none"
    THEN {Outcome("AttributeError", saleTable, table, NoneInt)}
    ELSE IF ~(StartsWithTilde(row.Item.note) \/ StartsWithTilde(row.stash))
    THEN {Outcome("", saleTable, table, NoneInt)}
    ELSE ParsedRow(row.Item, saleTable, table, itemTable,
                   parse_note(row.stash, actual),
                   parse_note(row.Item.note, actual), t, recent)

-----------------------------------------------------------------------------
(* Ingestion writer: PoeDb.insert_api_stash, PoeDb._insert_or_update_row *)

\* _insert_or_update_row(Stash, ...): the stash table after the upsert
UpsertStash(stashTable, snap, t) ==
    LET existing == {r \in stashTable : r.api_id = snap.id}
    IN  IF existing # {}
        THEN {IF r \in existing
              THEN [r EXCEPT !.updated_at = t, !.stash = snap.stash,
                             !.public = snap.public]
              ELSE r : r \in stashTable}
        ELSE stashTable \cup
             {[id |-> Cardinality(stashTable) + 1, api_id |-> snap.id,
               stash |-> snap.stash, public |-> snap.public,
               created_at |-> t, updated_at |-> t]}

\* _insert_or_update_row(Item, ..., stash=dbstash): the item table after
UpsertItem(itemTable, thing, stash_id, t) ==
    LET existing == {r \in itemTable : r.api_id = thing.id}
    IN  IF existing # {}
        THEN {IF r \in existing
              THEN [r EXCEPT !.updated_at = t, !.stash_id = stash_id,
                             !.active = TRUE, !.note = thing.note,
                             !.league = thing.league, !.name = thing.name,
                             !.typeLine = thing.typeLine,
                             !.is_currency = thing.is_currency]
              ELSE r : r \in itemTable}
        ELSE itemTable \cup
             {[id |-> Cardinality(itemTable) + 1, api_id |-> thing.id,
               stash_id |-> stash_id, active |-> TRUE, note |-> thing.note,
               league |-> thing.league, name |-> thing.name,
               typeLine |-> thing.typeLine,
               is_currency |-> thing.is_currency,
               created_at |-> t, updated_at |-> t]}

RECURSIVE UpsertItems(_, _, _, _, _)
UpsertItems(itemTable, things, i, stash_id, t) ==
    IF i > Len(things) THEN itemTable
    ELSE UpsertItems(UpsertItem(itemTable, things[i], stash_id, t),
                     things, i + 1, stash_id, t)

\* insert_api_stash(stash, with_items=True) followed by the commit of
\* pull_data: <<stash table, item table>>
insert_api_stash(stashTable, itemTable, snap, t) ==
    LET st1 == UpsertStash(stashTable, snap, t)
        dbstash == CHOOSE r \in st1 : r.api_id = snap.id
    IN  <<st1, UpsertItems(itemTable, snap.items, 1, dbstash.id, t)>>

-----------------------------------------------------------------------------
(* Paged query: CurrencyPostprocessor._currency_query *)

\* order_by(Item.updated_at, Item.created_at, Item.id)
RowBefore(a, b) ==
    \/ a.Item.updated_at < b.Item.updated_at
    \/ /\ a.Item.updated_at = b.Item.updated_at
       /\ \/ a.Item.created_at < b.Item.created_at
          \/ /\ a.Item.created_at = b.Item.created_at
             /\ a.Item.id < b.Item.id

RECURSIVE Sorted(_)
Sorted(rows) ==
    IF rows = {} THEN <<>>
    ELSE LET first == CHOOSE r \in rows :
                          \A o \in rows \ {r} : RowBefore(r, o)
         IN  <<first>> \o Sorted(rows \ {first})

Min(a, b) == IF a < b THEN a ELSE b

_currency_query(itemTable, stashTable, start, size, offset) ==
    LET joined == {[Item |-> i, stash |-> s.stash] :
                      <<i, s>> \in {p \in itemTable \X stashTable :
                                       /\ p[2].id = p[1].stash_id
                                       /\ p[2].public
                                       /\ (start # NoneInt =>
                                              p[1].updated_at >= start)}}
        all == Sorted(joined)
    IN  SubSeq(all, offset + 1, Min(Len(all), offset + size))

-----------------------------------------------------------------------------
(* Resume point: CurrencyPostprocessor.get_last_processed_time *)

get_last_processed_time(saleTable) ==
    IF saleTable = {} THEN NoneInt
    ELSE (CHOOSE s \in saleTable :
             \A o \in saleTable : o.item_updated_at <= s.item_updated_at
         ).item_updated_at

-----------------------------------------------------------------------------
(* The feed of the stash API: the snapshots the ingestion process may     *)
(* deliver, in any order and any number of times                          *)

Thing(id, name, typeLine, is_currency, note) ==
    [id |-> id, name |-> name, typeLine |-> typeLine,
     is_currency |-> is_currency, note |-> note, league |-> "Standard"]

ThingA == Thing("a", "Doom Knot", "Iron Ring", FALSE, PriceNote(2, "exa"))
ThingB == Thing("b", "", "Exalted Orb", TRUE, PriceNote(3, "chaos"))
ThingC == Thing("c", "", "Iron Ring", FALSE, NullNote)
ThingD == Thing("d", "", "Iron Ring", FALSE, PlainNote)

Snap(id, public, stash, things) ==
    [id |-> id, public |-> public, stash |-> stash, items |-> things]

PricedTitle == PriceNote(1, "chaos")

Feed ==
    { Snap("s2", TRUE, PricedTitle, <<ThingA, ThingB, ThingC>>),
      Snap("s1", TRUE, NullNote, <<ThingA, ThingB>>),
      Snap("s1", TRUE, NullNote, <<ThingA, ThingC, ThingB>>),
      Snap("s1", TRUE, NullNote, <<ThingD>>),
      Snap("s3", FALSE, PlainNote, <<ThingB>>) }

-----------------------------------------------------------------------------
(* Driver: do_currency_postprocessor, _currency_processor_single_pass *)

\* block_size = 1000 in the source; the model pages by 2
block_size == 2

Config(continuous, start_time, recent, limit) ==
    [continuous |-> continuous, start_time |-> start_time,
     recent |-> recent, limit |-> limit]

\* the command lines the driver is started with
Configs ==
    { Config(FALSE, NoneInt, 600, NoneInt),
      Config(TRUE, NoneInt, 600, NoneInt),
      Config(TRUE, 1, NoneInt, NoneInt),
      Config(FALSE, NoneInt, 600, 1),
      Config(FALSE, NoneInt, 600, block_size) }

\* locals on entry of do_currency_postprocessor: prev = None
DrvInit ==
    [pc |-> "loop", prev |-> NoneInt, actual |-> {}, start |-> NoneInt,
     offset |-> 0, count |-> 0, all_processed |-> 0, todo |-> TRUE,
     last_row |-> NoneInt, page |-> <<>>, idx |-> 1, passes |-> 0,
     err |-> ""]

\* what is recorded of the last pass this process completed
NoPass == [valid |-> FALSE, start |-> NoneInt, sales |-> {},
           summaries |-> {}, items |-> {}, stashes |-> {}]

\* fetched: item ids of the pages of the current pass, in fetch order
\* items, stashes: the ingested tables when the current pass started
\* late: a snapshot was ingested after the driver first started a pass
\* lost: what the last kill discarded: "none" before any kill, "nothing",
\*       "first" uncommitted writes of a first page, "later" of a later page
HistInit ==
    [fetched |-> <<>>, items |-> {}, stashes |-> {}, ingests |-> 0,
     started |-> FALSE, late |-> FALSE, restarts |-> 0, last |-> NoPass,
     lost |-> "none"]

NoProbe == [op |-> "none", name |-> NoneStr, league |-> NoneStr,
            price |-> NoneRat, err |-> FALSE, value |-> NoneRat]

Init ==
    /\ now = 1
    /\ stashes = {} /\ items = {}
    /\ sales = {} /\ summaries = {}
    /\ cSales = {} /\ cSummaries = {}
    /\ cfg \in Configs
    /\ drv = DrvInit
    /\ hist = HistInit
    /\ probe = NoProbe

Running == drv.pc \in {"loop", "fetch", "rows", "pass_end", "sleep"}

\* the ingestion process stores one snapshot, stamped with the current
\* time, and commits; the next poll of the API is a second later
Ingest ==
    /\ hist.ingests < MaxIngest
    /\ \E snap \in Feed :
          LET r == insert_api_stash(stashes, items, snap, now)
          IN  stashes' = r[1] /\ items' = r[2]
    /\ hist' = [hist EXCEPT !.ingests = @ + 1,
                            !.late = @ \/ hist.started]
    /\ now' = now + 1
    /\ UNCHANGED <<sales, summaries, cSales, cSummaries, cfg, drv, probe>>

\* python truthiness of an Optional[int]
TruthyInt(x) == x # NoneInt /\ x # 0

\* top of "while True": lexicon, start watermark, locals of the pass
StartPass ==
    /\ drv.pc = "loop"
    /\ drv.passes < MaxPasses
    /\ drv' = [drv EXCEPT
                 !.pc = "fetch",
                 !.actual = get_actual_currencies(summaries),
                 !.start = IF TruthyInt(cfg.start_time) THEN cfg.start_time
                           ELSE get_last_processed_time(sales),
                 !.offset = 0, !.count = 0, !.all_processed = 0,
                 !.todo = TRUE, !.last_row = NoneInt,
                 !.page = <<>>, !.idx = 1, !.passes = @ + 1]
    /\ hist' = [hist EXCEPT !.fetched = <<>>, !.items = items,
                            !.stashes = stashes, !.started = TRUE]
    /\ UNCHANGED <<now, stashes, items, sales, summaries, cSales,
                   cSummaries, cfg, probe>>

\* "query = self._currency_query(...)", "count = 0", "query.all()"
FetchPage ==
    /\ drv.pc = "fetch"
    /\ LET page == _currency_query(items, stashes, drv.start, block_size,
                                   drv.offset)
       IN  /\ drv' = [drv EXCEPT !.pc = "rows", !.page = page, !.idx = 1,
                                 !.count = 0]
           /\ hist' = [hist EXCEPT !.fetched =
                          @ \o [i \in 1..Len(page) |-> page[i].Item.id]]
    /\ UNCHANGED <<now, stashes, items, sales, summaries, cSales,
                   cSummaries, cfg, probe>>

\* one iteration of "for row in query.all()"
ProcessRow ==
    /\ drv.pc = "rows"
    /\ drv.idx <= Len(drv.page)
    /\ LET row == drv.page[drv.idx]
       IN  IF ~(NoteTruthy(row.Item.note) \/ NoteTruthy(row.stash))
           THEN /\ drv' = [drv EXCEPT !.idx = @ + 1]
                /\ UNCHANGED <<sales, summaries>>
           ELSE \E out \in _process_sale(row, sales, summaries, items,
                                         drv.actual, now, cfg.recent) :
                   IF out.err # ""
                   THEN \* the exception leaves do_currency_postprocessor;
                        \* the session is discarded with the process
                        /\ drv' = [drv EXCEPT !.pc = "failed",
                                              !.count = @ + 1,
                                              !.err = out.err]
                        /\ sales' = cSales
                        /\ summaries' = cSummaries
                   ELSE /\ drv' = [drv EXCEPT
                                     !.idx = @ + 1, !.count = @ + 1,
                                     !.last_row = IF out.row_id # NoneInt
                                                  THEN out.row_id ELSE @]
                        /\ sales' = out.sales
                        /\ summaries' = out.summaries
    /\ UNCHANGED <<now, stashes, items, cSales, cSummaries, cfg, hist,
                   probe>>

\* EndPage committing only when the pass ends
EndPage_CommitAtEnd ==
    /\ drv.pc = "rows"
    /\ drv.idx > Len(drv.page)
    /\ LET todo == drv.count = block_size
           done == drv.all_processed + drv.count
           stop == TruthyInt(cfg.limit) /\ done > cfg.limit
       IN  /\ drv' = [drv EXCEPT !.todo = todo, !.offset = @ + drv.count,
                                 !.all_processed = done,
                                 !.pc = IF stop \/ ~todo THEN "pass_end"
                                        ELSE "fetch"]
           /\ cSales' = IF stop \/ ~todo THEN sales ELSE cSales
           /\ cSummaries' = IF stop \/ ~todo THEN summaries ELSE cSummaries
    /\ UNCHANGED <<now, stashes, items, sales, summaries, cfg, hist, probe>>

\* EndPage with the pass stopped when the limit is reached
EndPage_StopAtLimit ==
    /\ drv.pc = "rows"
    /\ drv.idx > Len(drv.page)
    /\ LET todo == drv.count = block_size
           done == drv.all_processed + drv.count
           stop == TruthyInt(cfg.limit) /\ done >= cfg.limit
       IN  drv' = [drv EXCEPT !.todo = todo, !.offset = @ + drv.count,
                              !.all_processed = done,
                              !.pc = IF stop \/ ~todo THEN "pass_end"
                                     ELSE "fetch"]
    /\ cSales' = sales
    /\ cSummaries' = summaries
    /\ UNCHANGED <<now, stashes, items, sales, summaries, cfg, hist, probe>>

\* after the for loop: todo, offset, commit, all_processed, limit
EndPage ==
    /\ drv.pc = "rows"
    /\ drv.idx > Len(drv.page)
    /\ LET todo == drv.count = block_size
           done == drv.all_processed + drv.count
           stop == TruthyInt(cfg.limit) /\ done > cfg.limit
       IN  drv' = [drv EXCEPT !.todo = todo, !.offset = @ + drv.count,
                              !.all_processed = done,
                              !.pc = IF stop \/ ~todo THEN "pass_end"
                                     ELSE "fetch"]
    /\ cSales' = sales
    /\ cSummaries' = summaries
    /\ UNCHANGED <<now, stashes, items, sales, summaries, cfg, hist, probe>>

\* AfterPass without the break of the non-continuous mode
AfterPass_NoBreak ==
    /\ drv.pc = "pass_end"
    /\ LET fresh == ~TruthyInt(drv.prev) \/ drv.last_row # drv.prev
       IN  drv' = [drv EXCEPT
                     !.prev = IF fresh THEN drv.last_row ELSE @,
                     !.pc = IF ~fresh /\ cfg.continuous THEN "sleep"
                            ELSE "loop"]
    /\ hist' = [hist EXCEPT !.last =
                   [valid |-> items = hist.items /\ stashes = hist.stashes,
                    start |-> drv.start, sales |-> cSales,
                    summaries |-> cSummaries, items |-> items,
                    stashes |-> stashes]]
    /\ UNCHANGED <<now, stashes, items, sales, summaries, cSales,
                   cSummaries, cfg, probe>>

\* after the pass returned (rows_done, last_row): prev, sleep, break
AfterPass ==
    /\ drv.pc = "pass_end"
    /\ LET fresh == ~TruthyInt(drv.prev) \/ drv.last_row # drv.prev
       IN  drv' = [drv EXCEPT
                     !.prev = IF fresh THEN drv.last_row ELSE @,
                     !.pc = IF ~fresh /\ cfg.continuous THEN "sleep"
                            ELSE IF ~cfg.continuous THEN "done"
                            ELSE "loop"]
    /\ hist' = [hist EXCEPT !.last =
                   [valid |-> items = hist.items /\ stashes = hist.stashes,
                    start |-> drv.start, sales |-> cSales,
                    summaries |-> cSummaries, items |-> items,
                    stashes |-> stashes]]
    /\ UNCHANGED <<now, stashes, items, sales, summaries, cSales,
                   cSummaries, cfg, probe>>

\* time.sleep(1) returns; continuous is set, the loop goes on
Wake ==
    /\ drv.pc = "sleep"
    /\ drv' = [drv EXCEPT !.pc = "loop"]
    /\ UNCHANGED <<now, stashes, items, sales, summaries, cSales,
                   cSummaries, cfg, hist, probe>>

\* the driver process is killed: its session and locals are lost
Crash ==
    /\ Running
    /\ drv' = [DrvInit EXCEPT !.pc = "crashed"]
    /\ sales' = cSales
    /\ summaries' = cSummaries
    /\ hist' = [hist EXCEPT
                  !.fetched = <<>>, !.items = {}, !.stashes = {},
                  !.last = NoPass,
                  !.lost = IF sales = cSales /\ summaries = cSummaries
                           THEN "nothing"
                           ELSE IF drv.offset = 0 THEN "first" ELSE "later"]
    /\ UNCHANGED <<now, stashes, items, cSales, cSummaries, cfg, probe>>

\* the driver is started again with the same command line
Restart ==
    /\ drv.pc \in {"crashed", "failed", "done"}
    /\ hist.restarts < MaxRestarts
    /\ drv' = DrvInit
    /\ hist' = [hist EXCEPT !.last = NoPass, !.restarts = @ + 1]
    /\ UNCHANGED <<now, stashes, items, sales, summaries, cSales,
                   cSummaries, cfg, probe>>

Next ==
    \/ Ingest
    \/ StartPass
    \/ FetchPage
    \/ ProcessRow
    \/ EndPage
    \/ AfterPass
    \/ Wake
    \/ Crash
    \/ Restart

Spec == Init /\ [][Next]_vars

-----------------------------------------------------------------------------
(* Observations used by the properties *)

\* the rows the query of a pass selects, without paging
Selected(itemTable, stashTable, start) ==
    LET all == _currency_query(itemTable, stashTable, start,
                               Cardinality(itemTable), 0)
    IN  {all[k] : k \in 1..Len(all)}

\* how often the current pass fetched the item
Fetches(id) == Cardinality({k \in 1..Len(hist.fetched) : hist.fetched[k] = id})

\* the item and its stash are as they were when the pass started
Unmodified(row) ==
    /\ row.Item \in items
    /\ \E st \in stashes : st.id = row.Item.stash_id /\ st \in hist.stashes

\* every selected row has a note or a stash title
AllAnnotated(rows) ==
    \A r \in rows : NoteTruthy(r.Item.note) \/ NoteTruthy(r.stash)

PassReturned == drv.pc = "pass_end"

NoLimit == ~TruthyInt(cfg.limit)

\* nothing was ingested since the pass started
NoWriteInPass == items = hist.items /\ stashes = hist.stashes

\* the columns of a Sale and of a CurrencySummary the claims compare
SaleValues(saleTable) ==
    {<<s.item_id, s.name, s.is_currency, s.sale_currency, s.sale_amount,
       s.sale_amount_chaos, s.item_updated_at>> : s \in saleTable}

SummaryValues(table) ==
    {<<r.from_currency, r.to_currency, r.league, r.count, r.weight, r.mean,
       r.variance>> : r \in table}

\* processing the row now would write a Sale
WouldSell(row) ==
    \E out \in _process_sale(row, cSales, cSummaries, items, drv.actual,
                             now, cfg.recent) : out.row_id # NoneInt

\* the row is priceable and no committed Sale reflects its current state
NeedsProcessing(row) ==
    /\ NoteTruthy(row.Item.note) \/ NoteTruthy(row.stash)
    /\ WouldSell(row)
    /\ ~\E s \in cSales : /\ s.item_id = row.Item.id
                          /\ s.item_updated_at = row.Item.updated_at

-----------------------------------------------------------------------------
(* Properties of the driver *)

\* C1: while a pass runs concurrently with the ingestion process, every
\* public row with updated_at >= start that exists when the pass starts and
\* is not modified during the pass is fetched by exactly one page of the
\* pass (stated for passes without limit over annotated rows of public
\* stashes, where the pass ends only on a short page).
C1_NoSkipNoDuplicate ==
    (PassReturned /\ NoLimit
     /\ (\A st \in stashes : st.public)
     /\ AllAnnotated(Selected(items, stashes, drv.start)))
    => \A row \in Selected(hist.items, hist.stashes, drv.start) :
          Unmodified(row) => Fetches(row.Item.id) = 1

\* C2: with no limit and no concurrent writer a pass is a full sweep: when
\* it returns, every public row with updated_at >= start has been fetched
\* and iterated by the pass.
C2_FullSweep ==
    (PassReturned /\ NoLimit /\ NoWriteInPass)
    => \A row \in Selected(items, stashes, drv.start) :
          Fetches(row.Item.id) >= 1

\* C3: processing the same unchanged rows a second time, from the same
\* start, leaves the Sale rows and the CurrencySummary rows as the first
\* processing left them.
C3_Idempotent ==
    (PassReturned /\ NoLimit /\ NoWriteInPass /\ hist.last.valid
     /\ hist.last.items = items /\ hist.last.stashes = stashes
     /\ hist.last.start = drv.start)
    => /\ SaleValues(cSales) = SaleValues(hist.last.sales)
       /\ SummaryValues(cSummaries) = SummaryValues(hist.last.summaries)

\* a pass has just started: nothing fetched yet
PassStarting == drv.pc = "fetch" /\ drv.offset = 0 /\ drv.all_processed = 0

\* C7: with no explicit start time the watermark of a pass is the maximum
\* item_updated_at of the committed Sales, the pass selects the rows with
\* updated_at >= watermark, and absent concurrent writes every public row
\* that still needs processing is among them.
C7_ResumeWatermark ==
    (PassStarting /\ ~TruthyInt(cfg.start_time))
    => /\ drv.start = get_last_processed_time(cSales)
       /\ \A row \in Selected(items, stashes, drv.start) :
             drv.start # NoneInt => row.Item.updated_at >= drv.start
       /\ ~hist.late =>
             \A row \in Selected(items, stashes, NoneInt) :
                NeedsProcessing(row)
                => row \in Selected(items, stashes, drv.start)

\* a restarted driver starts a pass from a watermark that a row shares
C7_Witness ==
    /\ PassStarting /\ ~TruthyInt(cfg.start_time) /\ ~hist.late
    /\ hist.restarts > 0
    /\ drv.start # NoneInt
    /\ \E row \in Selected(items, stashes, drv.start) :
          NeedsProcessing(row) /\ row.Item.updated_at = drv.start

\* C7, with its conclusion: with no explicit start time, no limit and no
\* concurrent write, the passes from the watermark reach the remaining
\* rows: once a pass returns with the committed Sales as the pass before
\* it left them, no selected row still needs processing.
C7_RemainingRowsReached ==
    (PassReturned /\ NoLimit /\ ~TruthyInt(cfg.start_time) /\ ~hist.late
     /\ hist.last.valid
     /\ SaleValues(cSales) = SaleValues(hist.last.sales))
    => /\ drv.start = get_last_processed_time(hist.last.sales)
       /\ \A row \in Selected(items, stashes, drv.start) :
             ~NeedsProcessing(row)

\* C8: in continuous mode a pass that made no progress against the pass
\* before it (same last Sale id, or no Sale in either) is followed by a
\* sleep.
C8_SleepWhenIdle ==
    [][(drv.pc = "pass_end" /\ drv'.pc \notin {"pass_end", "crashed"}
        /\ cfg.continuous /\ drv.passes >= 2 /\ drv.last_row = drv.prev)
       => drv'.pc = "sleep"]_vars

\* C10: a page's writes are committed before the next page is fetched, a
\* crash leaves the committed Sale and CurrencySummary rows those of the
\* last commit, and rows of earlier pages stay.
C10_CommitBeforeFetch ==
    /\ [](drv.pc = "fetch" => sales = cSales /\ summaries = cSummaries)
    /\ [][drv'.pc = "crashed"
          => /\ cSales' = cSales /\ cSummaries' = cSummaries
             /\ sales' = cSales /\ summaries' = cSummaries]_vars
    /\ [][(cSales' # cSales \/ cSummaries' # cSummaries)
          => /\ drv.pc = "rows" /\ drv'.pc \in {"fetch", "pass_end"}
             /\ cSales' = sales /\ cSummaries' = summaries]_vars
    /\ [][\A s \in cSales : \E n \in cSales' : n.item_id = s.item_id]_vars

\* the driver was killed in a later page of a pass after it had written
\* there: those writes are gone, the Sales of the earlier pages are kept
C10_Witness ==
    /\ drv.pc = "crashed" /\ hist.lost = "later"
    /\ cSales # {} /\ sales = cSales

\* C6: a row whose Item note and whose Stash title do not start with '~'
\* (a missing Stash title included) is skipped: no Sale and no
\* CurrencySummary is written, no error is raised, the pass goes on.
C6_UnmarkedRowSkipped ==
    [][(/\ drv.pc = "rows" /\ drv.idx <= Len(drv.page)
        /\ drv' # drv /\ drv'.pc # "crashed"
        /\ ~StartsWithTilde(drv.page[drv.idx].Item.note)
        /\ ~StartsWithTilde(drv.page[drv.idx].stash))
       => /\ sales' = sales /\ summaries' = summaries
          /\ drv'.pc = "rows" /\ drv'.idx = drv.idx + 1]_vars

\* C9: in non-continuous mode a run makes one pass and returns: it never
\* starts a second pass and has made its one pass when it returns.  It
\* terminates over a finite table without writer: every page fetched after
\* the first starts at a larger offset, and no page is fetched at an offset
\* beyond the selected rows.
C9_OnePassThenReturn ==
    /\ [](~cfg.continuous => drv.passes <= 1)
    /\ [](~cfg.continuous /\ drv.pc = "done" => drv.passes = 1)
    /\ [][(drv.pc = "rows" /\ drv'.pc = "fetch")
          => drv'.offset > drv.offset]_vars
    /\ []((~cfg.continuous /\ drv.pc = "fetch" /\ NoWriteInPass)
          => drv.offset <=
                Cardinality(Selected(items, stashes, drv.start)))
    /\ [][(~cfg.continuous /\ drv.pc = "done" /\ drv'.pc # "done")
          => drv' = DrvInit]_vars

\* a non-continuous run returned after a pass that wrote Sales
C9_Witness ==
    ~cfg.continuous /\ drv.pc = "done" /\ drv.passes = 1 /\ cSales # {}

\* the item ids that have a Sale
SoldItems(saleTable) == {s.item_id : s \in saleTable}

\* the price and currency _process_sale chooses for a row
Chosen(row) ==
    IF parse_note(row.Item.note, drv.actual).price = NoneRat
    THEN parse_note(row.stash, drv.actual)
    ELSE parse_note(row.Item.note, drv.actual)

\* the row being processed has a Sale already and a price: the step calls
\* _process_sale, which writes its Sale
Reprocessed ==
    /\ drv.pc = "rows" /\ drv.idx <= Len(drv.page)
    /\ drv'.pc = "rows" /\ drv'.idx = drv.idx + 1
    /\ drv'.count = drv.count + 1
    /\ drv.page[drv.idx].Item.id \in SoldItems(sales)
    /\ Truthy(Chosen(drv.page[drv.idx]).price)

\* C11: every Item has at most one Sale, in the session and in the committed
\* table; Sales are never deleted (the item ids with a Sale only grow, a
\* rollback apart); reprocessing an Item that has a Sale overwrites that
\* row (currency, amount, chaos value, item_updated_at) and adds none.
C11_OneSalePerItem ==
    /\ [](\A s1, s2 \in sales : s1.item_id = s2.item_id => s1 = s2)
    /\ [](\A s1, s2 \in cSales : s1.item_id = s2.item_id => s1 = s2)
    /\ [][SoldItems(cSales) \subseteq SoldItems(cSales')]_vars
    /\ [][drv'.pc \notin {"crashed", "failed"}
          => SoldItems(sales) \subseteq SoldItems(sales')]_vars
    /\ [][Reprocessed
          => /\ Cardinality(sales') = Cardinality(sales)
             /\ \E s \in sales, n \in sales' :
                   /\ s.item_id = drv.page[drv.idx].Item.id
                   /\ n.id = s.id /\ n.item_id = s.item_id
                   /\ n.name = s.name /\ n.item_api_id = s.item_api_id
                   /\ n.sale_amount = Chosen(drv.page[drv.idx]).price
                   /\ n.sale_currency = Chosen(drv.page[drv.idx]).currency
                   /\ n.item_updated_at = drv.page[drv.idx].Item.updated_at
                   /\ n.id = drv'.last_row
                   /\ sales' \ {n} = sales \ {s}]_vars

\* an Item was processed again after its Sale was committed, and the
\* session holds its one Sale with other values than the committed ones
C11_Witness ==
    /\ drv.pc = "rows"
    /\ \E s \in sales, c \in cSales :
          /\ s.item_id = c.item_id /\ s.id = c.id
          /\ s.item_updated_at # c.item_updated_at
    /\ Cardinality(sales) = Cardinality(SoldItems(sales))

-----------------------------------------------------------------------------
(* The resolver applied to drawn currency_summary tables *)

Row(from, to, league, weight, mean) ==
    [from_currency |-> from, to_currency |-> to, league |-> league,
     count |-> 1, weight |-> RInt(weight), mean |-> RInt(mean),
     variance |-> RZero, created_at |-> 1, updated_at |-> 1]

\* the triples a table is drawn over, each with its own mean
Triples ==
    { <<"Exalted Orb", Hub, 2>>,
      <<"Exalted Orb", "Divine Vessel", 3>>,
      <<"Exalted Orb", "Orb of Fusing", 5>>,
      <<"Divine Vessel", Hub, 7>>,
      <<"Orb of Fusing", Hub, 11>>,
      <<Hub, "Exalted Orb", 13>> }

\* a row of another league, heavier than every drawn row
OtherLeague == Row("Exalted Orb", Hub, "Hardcore", MaxWeight + 1, 17)

\* weight 0 stands for "no row for the triple"; the mean of the row from
\* the hub is the drawn one or 0
ResolverTables ==
    { {Row(t[1], t[2], "Standard", w[t],
           IF zero /\ t[1] = Hub THEN 0 ELSE t[3]) :
          t \in {u \in Triples : w[u] > 0}} \cup extra :
        w \in [Triples -> 0..MaxWeight], extra \in {{}, {OtherLeague}},
        zero \in BOOLEAN }

InitResolver ==
    /\ now = 1
    /\ stashes = {} /\ items = {}
    /\ sales = {} /\ cSales = {}
    /\ summaries \in ResolverTables
    /\ cSummaries = summaries
    /\ cfg = Config(FALSE, NoneInt, 600, NoneInt)
    /\ drv = DrvInit
    /\ hist = HistInit
    /\ probe = NoProbe

Resolve ==
    /\ probe.op = "none"
    /\ \E name \in {"Exalted Orb", Hub}, price \in {1, 2},
          league \in {"Standard", "Hardcore"} :
          \E v \in find_value_of(summaries, name, league, RInt(price)) :
             probe' = [op |-> "find_value_of", name |-> name,
                       league |-> league, price |-> RInt(price),
                       err |-> v.err, value |-> v.value]
    /\ UNCHANGED <<now, stashes, items, sales, summaries, cSales,
                   cSummaries, cfg, drv, hist>>

NextResolver == Resolve

SpecResolver == InitResolver /\ [][NextResolver]_vars

\* the two-hop paths of the probed currency: <<first row, second row>>
TwoHops ==
    {p \in FromRows(summaries, probe.name, probe.league) \X summaries :
        /\ p[1].to_currency # Hub
        /\ p[2] \in OneOrNone(summaries, p[1].to_currency, Hub,
                              probe.league)}

Score(p) == RMin(p[1].weight, p[2].weight)

Direct == OneOrNone(summaries, probe.name, Hub, probe.league)

Resolved == probe.op = "find_value_of" /\ probe.name # Hub /\ ~probe.err

\* C4: with a direct row source->hub of weight d, find_value_of uses a
\* two-hop path only if its score min(w1, w2) is strictly greater than d,
\* and then a two-hop path of the highest score; otherwise, ties included,
\* it uses the direct row; the value is amount * direct.mean or
\* amount * (first.mean * second.mean).
C4_DirectUnlessTwoHopBetter ==
    (Resolved /\ Direct # {})
    => \A d \in Direct :
          IF \E p \in TwoHops : RLt(d.weight, Score(p))
          THEN \E p \in TwoHops :
                  /\ \A q \in TwoHops : RLe(Score(q), Score(p))
                  /\ probe.value =
                        RMul(probe.price, RMul(p[1].mean, p[2].mean))
          ELSE probe.value = RMul(probe.price, d.mean)

\* a direct row tied with the best two-hop path, beside a weaker two-hop
C4_Witness ==
    /\ Resolved /\ Direct # {}
    /\ \E d \in Direct, p, q \in TwoHops :
          /\ Score(p) = d.weight
          /\ RLt(Score(q), Score(p))
          /\ probe.value = RMul(probe.price, d.mean)

-----------------------------------------------------------------------------
(* One page of a pass over a table of currency items.  With the source's   *)
(* block_size = 1000 the page holds every row of the table; its rows are   *)
(* processed in order while the clock advances.                            *)

PageIds == <<"x1", "x2", "x3", "x4", "x5", "x6", "x7", "x8", "x9", "x10",
             "x11", "x12", "x13", "x14">>

\* Exalted Orbs offered for 3 chaos, the later ones for 5 chaos
PageThing(j) ==
    Thing(PageIds[j], "", "Exalted Orb", TRUE,
          PriceNote(IF j > CacheCount THEN 5 ELSE 3, "chaos"))

PageSnap(k) == Snap("s1", TRUE, NullNote, [j \in 1..k |-> PageThing(j)])

InitPage ==
    /\ now = 2
    /\ \E k \in (CacheCount - 1)..MaxPageRows :
          LET r == insert_api_stash({}, {}, PageSnap(k), 1)
          IN  /\ stashes = r[1] /\ items = r[2]
              /\ drv = [DrvInit EXCEPT
                          !.pc = "rows", !.passes = 1,
                          !.page = _currency_query(r[2], r[1], NoneInt,
                                                   1000, 0)]
              /\ hist = [HistInit EXCEPT !.items = r[2], !.stashes = r[1],
                                         !.started = TRUE, !.ingests = 1]
    /\ sales = {} /\ summaries = {}
    /\ cSales = {} /\ cSummaries = {}
    /\ cfg \in {Config(FALSE, NoneInt, r, NoneInt) : r \in {NoneInt, 0, 2}}
    /\ probe = NoProbe

TickPage ==
    /\ now < PageMaxTime
    /\ now' = now + 1
    /\ UNCHANGED <<stashes, items, sales, summaries, cSales, cSummaries,
                   cfg, drv, hist, probe>>

NextPage == ProcessRow \/ TickPage

SpecPage == InitPage /\ [][NextPage]_vars

\* the row being processed by the step, and the Sale the step wrote for it
ThisRow == drv.page[drv.idx]
RowStep == drv.pc = "rows" /\ drv.idx <= Len(drv.page) /\ drv'.idx = drv.idx + 1
SaleOf(saleTable, row) == {s \in saleTable : s.item_id = row.Item.id}

\* C5: the summary recompute for a triple is skipped, the stored row left
\* untouched, exactly when the cache is enabled, a row exists, its
\* count >= 10 and now - updated_at < recent; otherwise the recompute is
\* performed.
C5_CacheWindow ==
    [][(RowStep /\ ThisRow.Item.is_currency /\ sales' # sales)
       => \A s \in SaleOf(sales', ThisRow) :
             LET name == DisplayName(ThisRow.Item)
                 league == ThisRow.Item.league
                 e == OneOrNone(summaries, name, s.sale_currency, league)
                 skip == /\ cfg.recent # NoneInt
                         /\ e # {}
                         /\ \A x \in e : /\ x.count >= 10
                                         /\ now - x.updated_at < cfg.recent
             IN  IF skip THEN summaries' = summaries
                 ELSE summaries' =
                         _update_currency_summary(
                             summaries, sales', items, name, s.sale_currency,
                             league, ThisRow.Item.updated_at, now, NoneInt)
      ]_vars


-----------------------------------------------------------------------------
(* Row processing over one page of drawn rows, each Item in a Stash of its *)
(* own                                                                     *)

MaxRowPage == 3
MaxRowTime == 2

\* a row: the Stash title and the Item offered in it
RowKind(title, typeLine, is_currency, note) ==
    [title |-> title, thing |-> Thing("", "", typeLine, is_currency, note)]

RowKinds ==
    { RowKind(NullNote, "Iron Ring", FALSE, PriceNote(2, "exa")),
      RowKind(NullNote, "Exalted Orb", TRUE, PriceNote(3, "chaos")),
      RowKind(NullNote, "Exalted Orb", TRUE,
              Note("price", "frac", 1, 2, "chaos", "")),
      RowKind(NullNote, "Chaos Orb", TRUE, PriceNote(2, "exa")),
      RowKind(PriceNote(2, "exa"), "Iron Ring", FALSE, PriceNote(3, "chaos")),
      RowKind(PriceNote(2, "exa"), "Iron Ring", FALSE, TildeNote),
      RowKind(PriceNote(2, "exa"), "Iron Ring", FALSE, PriceNote(0, "chaos")),
      RowKind(NullNote, "Iron Ring", FALSE,
              Note("price", "frac", 1, 0, "chaos", "")),
      RowKind(Note("price", "frac", 1, 0, "chaos", ""), "Iron Ring", FALSE,
              PriceNote(3, "chaos")),
      RowKind(NullNote, "Iron Ring", FALSE, PriceNote(5, "xyz")) }

\* the stash snapshot that carries the i-th row
RowSnap(kind, i) ==
    Snap(PageIds[i], TRUE, kind.title,
         <<[kind.thing EXCEPT !.id = PageIds[i]]>>)

\* <<stash table, item table>> after the snapshots of the rows from the i-th
RECURSIVE IngestRows(_, _, _)
IngestRows(kinds, i, tables) ==
    IF i > Len(kinds) THEN tables
    ELSE IngestRows(kinds, i + 1,
                    insert_api_stash(tables[1], tables[2],
                                     RowSnap(kinds[i], i), 1))

\* the Sale an earlier pass left for the first Item, when that is no
\* currency and was then offered for 3 chaos
EarlierSale(itemTable) ==
    IF ItemOf(itemTable, 1).is_currency THEN {}
    ELSE UNION {o.sales :
                   o \in PricedRow([ItemOf(itemTable, 1) EXCEPT
                                       !.updated_at = 0,
                                       !.note = PriceNote(3, "chaos")],
                                   {}, {}, itemTable,
                                   DisplayName(ItemOf(itemTable, 1)), Hub,
                                   RInt(3), 1, NoneInt)}

InitRow ==
    /\ now = 2
    /\ \E n \in 1..MaxRowPage : \E kinds \in [1..n -> RowKinds] :
          LET r == IngestRows(kinds, 1, <<{}, {}>>)
          IN  /\ stashes = r[1] /\ items = r[2]
              /\ drv = [DrvInit EXCEPT
                          !.pc = "rows", !.passes = 1,
                          !.page = _currency_query(r[2], r[1], NoneInt,
                                                   1000, 0)]
              /\ hist = [HistInit EXCEPT !.items = r[2], !.stashes = r[1],
                                         !.started = TRUE, !.ingests = n]
    /\ \E old \in BOOLEAN : sales = IF old THEN EarlierSale(items) ELSE {}
    /\ cSales = sales
    /\ summaries = {} /\ cSummaries = {}
    /\ cfg = Config(FALSE, NoneInt, NoneInt, NoneInt)
    /\ probe = NoProbe

\* the clock moves on while the page is processed: by a second, or past
\* the window of relevant sales
Age ==
    /\ drv.pc = "rows"
    /\ now <= MaxRowTime
    /\ \E d \in {1, relevant} : now' = now + d
    /\ UNCHANGED <<stashes, items, sales, summaries, cSales, cSummaries,
                   cfg, drv, hist, probe>>

NextRow == ProcessRow \/ EndPage \/ Age

SpecRow == InitRow /\ [][NextRow]_vars


\* the rows of a table for the triple of the row r
SameTriple(table, r) ==
    {x \in table : /\ x.from_currency = r.from_currency
                   /\ x.to_currency = r.to_currency
                   /\ x.league = r.league}

\* C12: there is at most one CurrencySummary row per (from_currency,
\* to_currency, league); a step that writes a row either updates the row of
\* an existing triple, changing only count, mean, weight, standard_dev and
\* updated_at (key and created_at kept, every other row untouched), or
\* inserts a row, created now, for a triple that had none.
C12_OneSummaryPerTriple ==
    /\ [](\A r \in summaries : SameTriple(summaries, r) = {r})
    /\ [](\A r \in cSummaries : SameTriple(cSummaries, r) = {r})
    /\ [][drv'.pc \notin {"crashed", "failed"}
          => \A n \in summaries' \ summaries :
                \/ /\ SameTriple(summaries, n) = {}
                   /\ n.created_at = now /\ n.updated_at = now
                   /\ summaries' = summaries \cup {n}
                \/ \E r \in SameTriple(summaries, n) :
                      /\ n.created_at = r.created_at
                      /\ n.updated_at = now
                      /\ summaries' \ {n} = summaries \ {r}]_vars

\* two triples have a row, and one of them was updated after its insert
C12_Witness ==
    /\ Cardinality(summaries) >= 2
    /\ \E r \in summaries : r.count >= 2 /\ r.updated_at > r.created_at


\* the Sales the statistics query matches for the triple of the Sale n
Matching(saleTable, n) ==
    {s \in saleTable :
        /\ s.name = n.name /\ s.sale_currency = n.sale_currency
        /\ ItemOf(items, s.item_id).league = ItemOf(items, n.item_id).league
        /\ s.item_updated_at > now - relevant}

\* C13: when the statistics query of a processed currency row matches no
\* Sale, the step writes no CurrencySummary: an existing row of the triple
\* keeps every value (updated_at included) and none is inserted.
C13_NoSamplesNoWrite ==
    [][(/\ RowStep /\ ThisRow.Item.is_currency
        /\ sales' # sales
        /\ \A n \in SaleOf(sales', ThisRow) : Matching(sales', n) = {})
       => summaries' = summaries]_vars

\* a second Sale of a triple was processed after the Sales of the triple
\* had left the window: the row of the triple still counts one sample
C13_Witness ==
    /\ now > relevant
    /\ \E r \in summaries :
          /\ r.count = 1 /\ r.updated_at < relevant
          /\ Cardinality({s \in sales : /\ s.name = r.from_currency
                                        /\ s.sale_currency = r.to_currency})
                = 2


-----------------------------------------------------------------------------
(* The statistics engine applied to drawn Sales of one triple *)

MaxSamples == 6

SamplePrices == {10, 1000}

\* the Sale times the statistics are asked for: before that of the
\* samples, that of the samples, and twelve hours after it
SampleTimes == {0, 1, weight_increment + 1}

\* the Sales of the Items of a table, written in the order of the item ids
RECURSIVE SampleSales(_, _)
SampleSales(itemTable, saleTable) ==
    IF Cardinality(saleTable) = Cardinality(itemTable) THEN saleTable
    ELSE LET item == ItemOf(itemTable, Cardinality(saleTable) + 1)
         IN  SampleSales(itemTable,
                         PutSale(saleTable,
                                 UpsertSale(saleTable, item, item.typeLine,
                                            Hub, RInt(item.note.num))))

InitStats ==
    /\ now = weight_increment + 2
    /\ \E n \in 3..MaxSamples : \E prices \in [1..n -> SamplePrices] :
          LET r == insert_api_stash({}, {},
                      Snap("s1", TRUE, NullNote,
                           [j \in 1..n |->
                               Thing(PageIds[j], "", "Exalted Orb", TRUE,
                                     PriceNote(prices[j], "chaos"))]), 1)
          IN  /\ stashes = r[1] /\ items = r[2]
              /\ sales = SampleSales(r[2], {})
    /\ cSales = sales
    /\ summaries = {} /\ cSummaries = {}
    /\ cfg = Config(FALSE, NoneInt, NoneInt, NoneInt)
    /\ drv = DrvInit
    /\ hist = HistInit
    /\ probe = NoProbe

\* _update_currency_summary(name, currency, league, price, sale_time) and
\* the _get_mean_and_std(name, currency, league, sale_time) it calls
Measure ==
    /\ probe.op = "none"
    /\ \E sale_time \in SampleTimes :
          /\ probe' = [op |-> "stats", sale_time |-> sale_time,
                       result |-> _get_mean_and_std(sales, items,
                                                    "Exalted Orb", Hub,
                                                    "Standard", sale_time,
                                                    now)]
          /\ summaries' = _update_currency_summary(summaries, sales, items,
                                                   "Exalted Orb", Hub,
                                                   "Standard", sale_time,
                                                   now, cfg.recent)
    /\ UNCHANGED <<now, stashes, items, sales, cSales, cSummaries, cfg,
                   drv, hist>>

SpecStats == InitStats /\ [][Measure]_vars

\* the samples of the measured Sales and their first statistics
Samples == {Sample(s, probe.sale_time) : s \in sales}
FirstStats == calc_mean_std(Samples)

\* the measured Sales are four of price 10 and one of price 1000
FourAndOutlier ==
    /\ Cardinality(sales) = 5
    /\ Cardinality({s \in sales : s.sale_amount = RInt(10)}) = 4
    /\ Cardinality({s \in sales : s.sale_amount = RInt(1000)}) = 1

\* the returned statistics are those of the samples kept
KeptStats(kept) ==
    /\ probe.result.count = Cardinality(kept)
    /\ probe.result.mean = calc_mean_std(kept).mean
    /\ probe.result.variance = calc_mean_std(kept).variance

\* C14: for the prices [10,10,10,10,1000] with equal weights the engine
\* recalibrates, drops the 1000 sample (returned count 4) and returns a
\* stddev strictly smaller than the first one; in general one round of
\* recalibration, run when count > 3 and stddev > mean/2, discards exactly
\* the samples more than 2 stddev from the first weighted mean.
C14_OutlierDropped ==
    probe.op = "stats"
    => /\ FourAndOutlier
          => /\ probe.result.count = 4
             /\ RLt(probe.result.variance, FirstStats.variance)
       /\ IF Cardinality(Samples) > 3 /\ LargeStddev(FirstStats)
          THEN KeptStats({x \in Samples :
                             ~RLt(RMul(RInt(4), FirstStats.variance),
                                  Sq(RSub(x.price, FirstStats.mean)))})
          ELSE KeptStats(Samples)

\* the general half of C14 alone: one round, exactly the samples more than
\* 2 stddev from the first weighted mean are discarded
C14_General ==
    probe.op = "stats"
    => IF Cardinality(Samples) > 3 /\ LargeStddev(FirstStats)
       THEN KeptStats({x \in Samples :
                          ~RLt(RMul(RInt(4), FirstStats.variance),
                               Sq(RSub(x.price, FirstStats.mean)))})
       ELSE KeptStats(Samples)

\* the statistics of [10,10,10,10,1000] were measured: the spread was
\* large, the 1000 sample lies at exactly 2 stddev and all five were kept
C14_Witness ==
    /\ probe.op = "stats" /\ FourAndOutlier
    /\ LargeStddev(FirstStats)
    /\ FirstStats.mean = RInt(208) /\ FirstStats.variance = RInt(156816)
    /\ probe.result.count = 5


-----------------------------------------------------------------------------
(* The reverse fallback of the resolver, under SpecResolver *)

\* the row (from=hub, to=source, league) of the probed currency
Reverse == OneOrNone(summaries, Hub, probe.name, probe.league)

NoForward == Direct = {} /\ TwoHops = {}

\* C15: the reverse row is used only when there is no forward path (direct
\* or two-hop): then find_value_of returns amount / mean of the reverse
\* row if there is one (and null if there is none); with a forward path the
\* result is the one of the table without the reverse row.
C15_ReverseOnlyWithoutForward ==
    Resolved
    => /\ (NoForward /\ Reverse = {}) => probe.value = NoneRat
       /\ NoForward
          => \A r \in Reverse : /\ probe.value # NoneRat
                                /\ RMul(probe.value, r.mean) = probe.price
       /\ ~NoForward
          => probe.value \in
                {v.value : v \in find_value_of(summaries \ Reverse,
                                              probe.name, probe.league,
                                              probe.price)}

\* a currency without forward path was resolved through its reverse row
C15_Witness ==
    /\ Resolved /\ NoForward /\ Reverse # {}
    /\ probe.price = RInt(2) /\ probe.value = Rat(2, 13)

\* C16: when the reverse row has mean = 0, find_value_of raises no
\* division-by-zero fault: the case yields no conversion.
C16_ReverseZeroGuarded ==
    (/\ probe.op = "find_value_of" /\ probe.name # Hub
     /\ NoForward /\ \E r \in Reverse : r.mean = RZero)
    => ~probe.err /\ probe.value = NoneRat

\* the resolver fell back on a reverse row of mean 0 and raised
C16_Witness ==
    /\ probe.op = "find_value_of" /\ probe.err
    /\ NoForward /\ \E r \in Reverse : r.mean = RZero


\* the step processes a row with a note of a fraction whose denominator is 0
ZeroDenominator(note) == note.k = "price" /\ note.form = "frac" /\ note.den = 0

\* C17: a note whose amount is a fraction with den = 0 raises no arithmetic
\* fault out of parse_note: it counts as no price, the pass is not aborted,
\* and a row whose Item note is such a fraction (its Stash title holding no
\* price) is skipped.
C17_ZeroDenominatorSkipped ==
    [][(/\ drv.pc = "rows" /\ drv.idx <= Len(drv.page) /\ drv' # drv
        /\ \/ ZeroDenominator(ThisRow.Item.note)
           \/ ZeroDenominator(ThisRow.stash))
       => /\ drv'.pc = "rows" /\ drv'.idx = drv.idx + 1
          /\ (ZeroDenominator(ThisRow.Item.note) /\ ThisRow.stash = NullNote)
             => sales' = sales /\ summaries' = summaries]_vars

\* the pass was aborted by the fault of a row whose Item note is "1/0"
C17_Witness ==
    /\ drv.pc = "failed" /\ drv.err = "ZeroDivisionError"
    /\ ZeroDenominator(drv.page[drv.idx].Item.note)

-----------------------------------------------------------------------------
(* The note parser applied to drawn notes *)

MaxAmount == 2

\* the amount texts: decimals, fractions, and one float() rejects
Amounts ==
    {<<"dec", n, 1>> : n \in 0..MaxAmount}
    \cup {<<"frac", n, d>> : n \in 1..MaxAmount, d \in 0..MaxAmount}
    \cup {<<"bad", 0, 1>>}

\* the currency groups of the two patterns: <<tok, tok2>>
Tokens ==
    { <<"chaos", "">>, <<"chaos", "chaos orb">>, <<"ex", "">>,
      <<"divine", "">>, <<"divine", "divine vessel">>,
      <<"xyz", "">>, <<"xyz", "xyz abc">> }

Notes ==
    {NullNote, EmptyNote, PlainNote, TildeNote}
    \cup {Note("price", a[1], a[2], a[3], t[1], t[2]) :
             a \in Amounts, t \in Tokens}

InitNote ==
    /\ now = 1
    /\ stashes = {} /\ items = {}
    /\ sales = {} /\ cSales = {}
    /\ summaries \in {{}, {Row("Divine Vessel", Hub, "Standard", 1, 7)}}
    /\ cSummaries = summaries
    /\ cfg = Config(FALSE, NoneInt, NoneInt, NoneInt)
    /\ drv = [DrvInit EXCEPT !.actual = get_actual_currencies(summaries)]
    /\ hist = HistInit
    /\ probe = NoProbe

\* parse_note(note)
Parse ==
    /\ probe.op = "none"
    /\ \E note \in Notes :
          probe' = [op |-> "parse_note", note |-> note,
                    result |-> parse_note(note, drv.actual)]
    /\ UNCHANGED <<now, stashes, items, sales, summaries, cSales,
                   cSummaries, cfg, drv, hist>>

SpecNote == InitNote /\ [][Parse]_vars

\* the token is in none of the three lexicons
Unknown(tok) ==
    /\ tok \notin DOMAIN OFFICIAL_CURRENCIES
    /\ tok \notin DOMAIN UNOFFICIAL_CURRENCIES
    /\ tok \notin ActualKeys(drv.actual)

\* C18: for a note whose currency token (under either pattern) is in none
\* of the three lexicons, parse_note retries with the looser pattern at
\* most once, then returns (null, null) with a warning-level log event; it
\* never raises and never recurses a second time.
C18_UnknownTokenWarns ==
    (/\ probe.op = "parse_note" /\ probe.note.k = "price"
     /\ Unknown(probe.note.tok) /\ Unknown(probe.note.tok2))
    => /\ probe.result.err = ""
       /\ probe.result.price = NoneRat /\ probe.result.currency = NoneStr
       /\ probe.result.tries <= 2
       /\ probe.result.warned

\* the half of C18 that holds: no price and at most one retry, whenever
\* parse_note returns
C18_AtMostOneRetry ==
    (/\ probe.op = "parse_note" /\ probe.note.k = "price"
     /\ Unknown(probe.note.tok) /\ Unknown(probe.note.tok2)
     /\ probe.result.err = "")
    => /\ probe.result.price = NoneRat /\ probe.result.currency = NoneStr
       /\ probe.result.tries <= 2

\* parse_note raised on a note with an unknown currency token
C18_Witness ==
    /\ probe.op = "parse_note" /\ probe.note.k = "price"
    /\ Unknown(probe.note.tok) /\ Unknown(probe.note.tok2)
    /\ probe.result.err = "ZeroDivisionError"


\* C19: after a priced row is processed its Sale holds the value
\* find_value_of returns for (sale_currency, league, sale_amount) on the
\* summaries of that moment; the value is null when the currency has
\* neither a forward path nor a reverse row, also when the Sale held a
\* chaos value before; the pass goes on.
C19_ChaosValueOfTheMoment ==
    /\ [][(drv.pc = "rows" /\ drv'.pc = "failed")
          => \/ ZeroDenominator(ThisRow.Item.note)
             \/ ZeroDenominator(ThisRow.stash)]_vars
    /\ [][(RowStep /\ \E n \in SaleOf(sales', ThisRow) : n.id = drv'.last_row)
          => \A n \in SaleOf(sales', ThisRow) :
                /\ n.sale_amount_chaos \in
                      {v.value : v \in find_value_of(summaries', n.sale_currency,
                                                    ThisRow.Item.league,
                                                    n.sale_amount)}
                /\ (/\ n.sale_currency # Hub
                    /\ \A r \in FromRows(summaries', n.sale_currency,
                                         ThisRow.Item.league) :
                          /\ r.to_currency # Hub
                          /\ OneOrNone(summaries', r.to_currency, Hub,
                                       r.league) = {}
                    /\ OneOrNone(summaries', Hub, n.sale_currency,
                                 ThisRow.Item.league) = {})
                   => n.sale_amount_chaos = NoneRat
                /\ drv'.pc = "rows"]_vars

\* a Sale whose committed chaos value is not null has been reprocessed
\* without conversion: its chaos value is null in the session
C19_Witness ==
    /\ drv.pc = "rows"
    /\ \E s \in sales, c \in cSales :
          /\ s.id = c.id /\ c.sale_amount_chaos # NoneRat
          /\ s.sale_currency # Hub /\ s.sale_amount_chaos = NoneRat


\* the step processes the row at drv.idx (it ends by failing or advancing)
Processing == drv.pc = "rows" /\ drv.idx <= Len(drv.page) /\ drv' # drv

\* the step wrote the Sale of its row with the price and currency of p
SoldAt(p) ==
    /\ drv'.pc = "rows" /\ drv'.idx = drv.idx + 1
    /\ \E n \in SaleOf(sales', ThisRow) :
          /\ n.id = drv'.last_row
          /\ n.sale_amount = p.price /\ n.sale_currency = p.currency

\* C20: the price of a row is the one of the Item's own note whenever that
\* note parses to a price; the price and currency of the Stash title are
\* used only when the Item note yields none; a row whose chosen price is
\* null or 0 writes no Sale and changes no CurrencySummary.
C20_ItemNoteFirst ==
    [][Processing
       => LET ip == parse_note(ThisRow.Item.note, drv.actual)
              sp == parse_note(ThisRow.stash, drv.actual)
          IN  /\ (ip.err = "" /\ Truthy(ip.price)) => SoldAt(ip)
              /\ (ip.err = "" /\ ip.price = NoneRat
                  /\ sp.err = "" /\ Truthy(sp.price)) => SoldAt(sp)
              /\ (/\ ip.err = ""
                  /\ \/ ip.price # NoneRat /\ ip.price[1] = 0
                     \/ /\ ip.price = NoneRat /\ sp.err = ""
                        /\ ~Truthy(sp.price))
                 => /\ sales' = sales /\ summaries' = summaries
                    /\ drv'.pc = "rows"]_vars

\* C20 for the rows whose Stash title parses without fault
C20_ExceptTitleFault ==
    [][(Processing /\ parse_note(ThisRow.stash, drv.actual).err = "")
       => LET ip == parse_note(ThisRow.Item.note, drv.actual)
              sp == parse_note(ThisRow.stash, drv.actual)
          IN  /\ (ip.err = "" /\ Truthy(ip.price)) => SoldAt(ip)
              /\ (ip.err = "" /\ ip.price = NoneRat /\ Truthy(sp.price))
                 => SoldAt(sp)
              /\ (/\ ip.err = ""
                  /\ \/ ip.price # NoneRat /\ ip.price[1] = 0
                     \/ ip.price = NoneRat /\ ~Truthy(sp.price))
                 => /\ sales' = sales /\ summaries' = summaries
                    /\ drv'.pc = "rows"]_vars

\* the pass was aborted on a row whose Item note holds a price, by the
\* fault of its Stash title
C20_Witness ==
    /\ drv.pc = "failed"
    /\ Truthy(parse_note(drv.page[drv.idx].Item.note, drv.actual).price)
    /\ ZeroDenominator(drv.page[drv.idx].stash)
    /\ SaleOf(sales, drv.page[drv.idx]) = {}


\* C21: for a currency row the Sale is written first, then the
\* CurrencySummary of (item name, sale currency, league) is updated from
\* the Sales that include it, then the price is converted on the updated
\* table (the first sale of the hub currency priced in Y creates hub->Y and
\* is resolved through it); a non-currency row writes no CurrencySummary.
C21_SaleSummaryThenConversion ==
    [][(RowStep /\ \E n \in SaleOf(sales', ThisRow) : n.id = drv'.last_row)
       => \A n \in SaleOf(sales', ThisRow) :
             IF ThisRow.Item.is_currency
             THEN /\ n \in Matching(sales', n)
                     => \E r \in summaries' :
                           /\ r.from_currency = n.name
                           /\ r.to_currency = n.sale_currency
                           /\ r.league = ThisRow.Item.league
                           /\ r.updated_at = now
                           /\ r.count >= 1
                           /\ r.count <= Cardinality(Matching(sales', n))
                  /\ n.sale_amount_chaos \in
                        {v.value :
                            v \in find_value_of(summaries', n.sale_currency,
                                                ThisRow.Item.league,
                                                n.sale_amount)}
                  /\ (n.name = Hub /\ n.sale_currency # Hub
                      /\ summaries = {} /\ n \in Matching(sales', n))
                     => /\ n.sale_amount_chaos # NoneRat
                        /\ \E r \in summaries' :
                              RMul(n.sale_amount_chaos, r.mean)
                                 = n.sale_amount
             ELSE summaries' = summaries]_vars

\* the first sale of the hub currency, priced in exa, on an empty table:
\* the row hub->Exalted Orb exists and the Sale is valued through it
C21_Witness ==
    /\ drv.pc = "rows"
    /\ Cardinality(summaries) = 1
    /\ \E r \in summaries, n \in sales :
          /\ r.from_currency = Hub /\ r.to_currency = "Exalted Orb"
          /\ r.count = 1
          /\ n.name = Hub /\ n.sale_currency = "Exalted Orb"
          /\ n.sale_amount = RInt(2) /\ n.sale_amount_chaos = RInt(1)


\* C22: find_value_of(hub currency, league, amount) returns the amount
\* unchanged, for every league and every content of the table.
C22_HubIsIdentity ==
    (probe.op = "find_value_of" /\ probe.name = Hub)
    => ~probe.err /\ probe.value = probe.price

\* the hub currency was resolved on a table that holds rows from the hub
\* and a complete path from their target back to the hub
C22_Witness ==
    /\ probe.op = "find_value_of" /\ probe.name = Hub
    /\ probe.value = probe.price
    /\ \E r \in FromRows(summaries, Hub, probe.league) :
          OneOrNone(summaries, r.to_currency, Hub, probe.league) # {}


-----------------------------------------------------------------------------
(* Leagues *)

\* the tables of the state with the Items, Sales and CurrencySummary rows of
\* a second league, Hardcore, added to them: Exalted Orbs sold for 5 chaos
\* and Chaos Orbs for 5 exa there
WithHardcore ==
    LET far(id, typeLine, tok) ==
            [Thing(id, "", typeLine, TRUE, PriceNote(5, tok))
                EXCEPT !.league = "Hardcore"]
        items1 == UpsertItem(items, far("h1", "Exalted Orb", "chaos"), 0, 1)
        items2 == UpsertItem(items1, far("h2", "Chaos Orb", "exa"), 0, 1)
        h1 == CHOOSE i \in items2 : i.api_id = "h1"
        h2 == CHOOSE i \in items2 : i.api_id = "h2"
        sales1 == PutSale(sales, UpsertSale(sales, h1, "Exalted Orb", Hub,
                                            RInt(5)))
        sales2 == PutSale(sales1, UpsertSale(sales1, h2, Hub, "Exalted Orb",
                                             RInt(5)))
    IN  [items |-> items2, sales |-> sales2,
         summaries |-> summaries
                       \cup {Row("Exalted Orb", Hub, "Hardcore", 1, 5),
                             Row(Hub, "Exalted Orb", "Hardcore", 1, 5)}]

\* what an outcome of _process_sale holds for the league: the fault, the
\* Sales of the Items of the league and the CurrencySummary rows of it
InLeague(o, itemTable, league) ==
    <<o.err,
      SaleValues({x \in o.sales :
                     ItemOf(itemTable, x.item_id).league = league}),
      SummaryValues({r \in o.summaries : r.league = league})>>

\* C23: leagues never mix: processing a row of a league gives the same
\* Sales, the same chaos values (find_value_of) and the same
\* CurrencySummary values for the league whether or not another league
\* holds Items, Sales and CurrencySummary rows, and it writes no
\* CurrencySummary row of the other league.
C23_LeaguesNeverMix ==
    [][Processing
       => /\ {InLeague(o, items, ThisRow.Item.league) :
                 o \in _process_sale(ThisRow, sales, summaries, items,
                                     drv.actual, now, cfg.recent)}
             = {InLeague(o, WithHardcore.items, ThisRow.Item.league) :
                   o \in _process_sale(ThisRow, WithHardcore.sales,
                                       WithHardcore.summaries,
                                       WithHardcore.items, drv.actual, now,
                                       cfg.recent)}
          /\ \A o \in _process_sale(ThisRow, WithHardcore.sales,
                                    WithHardcore.summaries,
                                    WithHardcore.items, drv.actual, now,
                                    cfg.recent) :
                {r \in o.summaries : r.league # ThisRow.Item.league}
                = {r \in WithHardcore.summaries :
                      r.league # ThisRow.Item.league}]_vars

\* Exalted Orbs were sold in Standard for another price than in Hardcore,
\* and a Sale priced in exa was valued through the Standard row
C23_Witness ==
    /\ drv.pc = "rows"
    /\ \E r \in summaries, f \in WithHardcore.summaries :
          /\ r.league = "Standard" /\ f.league = "Hardcore"
          /\ r.from_currency = "Exalted Orb" /\ r.to_currency = Hub
          /\ f.from_currency = "Exalted Orb" /\ f.to_currency = Hub
          /\ f.mean # r.mean
          /\ \E n \in sales : /\ n.sale_currency = "Exalted Orb"
                              /\ n.sale_amount_chaos
                                    = RMul(r.mean, n.sale_amount)


-----------------------------------------------------------------------------
(* The resolver against a scan without shortcuts *)

\* the loop of find_value_of without its break and its continue: every row
\* is looked at, a direct row is taken at a score >= the best one, a two-hop
\* path at a score > the best one
RECURSIVE ReferenceScan(_, _, _, _, _)
ReferenceScan(table, league, st, order, i) ==
    IF i > Len(order) THEN st
    ELSE LET row == order[i]
             row2s == OneOrNone(table, row.to_currency, Hub, league)
             score == IF row.to_currency = Hub THEN row.weight
                      ELSE IF row2s = {} THEN NoneRat
                      ELSE RMin(row.weight,
                                (CHOOSE r \in row2s : TRUE).weight)
             conversion == IF row.to_currency = Hub THEN row.mean
                           ELSE IF row2s = {} THEN NoneRat
                           ELSE RMul(row.mean,
                                     (CHOOSE r \in row2s : TRUE).mean)
             better == /\ score # NoneRat
                       /\ \/ ~Truthy(st.high_score)
                          \/ RLt(st.high_score, score)
                          \/ row.to_currency = Hub /\ score = st.high_score
         IN  ReferenceScan(table, league,
                           IF better
                           THEN [st EXCEPT !.high_score = score,
                                           !.conversion = conversion]
                           ELSE st,
                           order, i + 1)

\* find_value_of on the result of ReferenceScan
ReferenceWith(table, name, league, price, order) ==
    IF name = Hub THEN [err |-> FALSE, value |-> price]
    ELSE LET st == ReferenceScan(table, league, ScanStart, order, 1)
         IN  IF Truthy(st.high_score)
             THEN [err |-> FALSE, value |-> RMul(st.conversion, price)]
             ELSE LET rev == OneOrNone(table, Hub, name, league)
                  IN  IF rev = {} THEN [err |-> FALSE, value |-> NoneRat]
                      ELSE LET row == CHOOSE r \in rev : TRUE
                           IN  IF row.mean[1] = 0
                               THEN [err |-> TRUE, value |-> NoneRat]
                               ELSE [err |-> FALSE,
                                     value |-> RMul(RDiv(RInt(1), row.mean),
                                                    price)]

\* C24: the two shortcuts of the resolver do not change its result: on
\* every table with positive weights and for every order the first query
\* may return, find_value_of gives the value of a scan that looks at every
\* row from the source in the league, skips no candidate, does not stop at
\* the direct row and keeps the path of the highest score, the direct row
\* winning ties; the value found is one of those.
C24_ShortcutsKeepResult ==
    probe.op = "find_value_of"
    => /\ \A o \in WeightDescOrders(FromRows(summaries, probe.name,
                                             probe.league)) :
             FindWith(summaries, probe.name, probe.league, probe.price, o)
             = ReferenceWith(summaries, probe.name, probe.league,
                             probe.price, o)
       /\ \E o \in WeightDescOrders(FromRows(summaries, probe.name,
                                             probe.league)) :
             LET v == ReferenceWith(summaries, probe.name, probe.league,
                                    probe.price, o)
             IN  probe.err = v.err /\ probe.value = v.value

\* a two-hop candidate was skipped for its weight and the scan was left at
\* a direct row weaker than the best path, which gave the value
C24_Witness ==
    /\ Resolved
    /\ \E d \in Direct, p, q \in TwoHops :
          /\ p[1] # q[1]
          /\ RLe(q[1].weight, Score(p))
          /\ RLt(d.weight, q[1].weight)
          /\ RLt(d.weight, Score(q))
          /\ probe.value = RMul(probe.price, RMul(p[1].mean, p[2].mean))


-----------------------------------------------------------------------------
(* The total-row limit of a pass *)

\* C25: with a limit L set, a pass fetches no further page once the rows
\* it processed exceed L, and goes on while they do not (a page of exactly
\* L rows is followed by the next page); the pass leaves its loop only
\* where a page has been processed to its end and committed, so that a
\* pass stopped on the limit holds no uncommitted write.
C25_LimitAfterCommittedPage ==
    [][TruthyInt(cfg.limit)
       => /\ (drv.pc = "fetch" /\ drv'.pc = "rows")
             => drv.all_processed <= cfg.limit
          /\ (drv.pc = "rows" /\ drv'.pc \in {"fetch", "pass_end"})
             => /\ drv.idx > Len(drv.page)
                /\ drv'.all_processed = drv.all_processed + drv.count
                /\ cSales' = sales' /\ cSummaries' = summaries'
                /\ sales' = sales /\ summaries' = summaries
                /\ drv'.pc = "pass_end"
                   <=> (drv'.all_processed > cfg.limit \/ ~drv'.todo)
          /\ (drv.pc # "pass_end" /\ drv'.pc = "pass_end")
             => drv.pc = "rows"]_vars

\* a pass stopped on the limit after a full page, with rows left to fetch
\* as far as it knows, and its writes committed
C25_Witness ==
    /\ drv.pc = "pass_end"
    /\ TruthyInt(cfg.limit)
    /\ drv.all_processed > cfg.limit
    /\ drv.todo
    /\ sales # {} /\ cSales = sales /\ cSummaries = summaries


-----------------------------------------------------------------------------
(* Items superseded by a newer snapshot *)

\* C26: after the ingestion of a newer snapshot of a stash, every Item
\* that belonged to the stash and is not part of the snapshot has
\* active = false, and every Item of the snapshot has active = true.
C26_SupersededInactive ==
    [][\A snap \in Feed :
          (/\ hist'.ingests = hist.ingests + 1
           /\ <<stashes', items'>>
                 = insert_api_stash(stashes, items, snap, now))
          => \A old \in stashes, i \in items' :
                old.api_id = snap.id
                => LET listed == \E k \in 1..Len(snap.items) :
                                    snap.items[k].id = i.api_id
                       belonged == \E b \in items :
                                      /\ b.id = i.id
                                      /\ b.stash_id = old.id
                   IN  /\ listed => i.active
                       /\ (belonged /\ ~listed) => ~i.active]_vars

\* an Item still active in a stash whose latest snapshot, which stamped
\* another Item of the stash later, did not list it
C26_Witness ==
    \E i, j \in items :
       /\ i.stash_id = j.stash_id
       /\ i.updated_at < j.updated_at
       /\ i.active


-----------------------------------------------------------------------------
(* The watermark over row processings, commits, passes and restarts *)

\* C27: the watermark never moves backwards: get_last_processed_time of
\* the committed Sales is non-decreasing over every step, that of the
\* session over every step that does not discard the session, the value a
\* pass starts from is the committed one and not below the start of the
\* pass before it; no Sale's item_updated_at decreases, a Sale written by
\* a row processing carries the updated_at of the row as read, and no Sale
\* is stamped later than its Item.
C27_WatermarkMonotone ==
    [][/\ get_last_processed_time(cSales')
             >= get_last_processed_time(cSales)
       /\ drv'.pc \notin {"crashed", "failed"}
          => /\ get_last_processed_time(sales')
                   >= get_last_processed_time(sales)
             /\ \A s \in sales, n \in sales' :
                   n.id = s.id => n.item_updated_at >= s.item_updated_at
       /\ (drv.pc = "loop" /\ drv'.pc = "fetch"
           /\ ~TruthyInt(cfg.start_time))
          => /\ drv'.start = get_last_processed_time(cSales)
             /\ drv'.start >= hist.last.start
       /\ (drv.pc = "rows" /\ drv'.pc = "rows")
          => \A n \in sales' \ sales :
                /\ n.item_id = drv.page[drv.idx].Item.id
                /\ n.item_updated_at = drv.page[drv.idx].Item.updated_at
       /\ \A n \in sales' : \E i \in items' :
             i.id = n.item_id /\ n.item_updated_at <= i.updated_at]_vars

\* a restarted driver starts a pass from a watermark that moved forward:
\* the Sale of an Item ingested again was stamped anew
C27_Witness ==
    /\ hist.restarts > 0
    /\ drv.pc = "fetch" /\ ~TruthyInt(cfg.start_time)
    /\ drv.start = get_last_processed_time(cSales)
    /\ \E s \in cSales, i \in items :
          /\ i.id = s.item_id
          /\ i.created_at < s.item_updated_at
          /\ s.item_updated_at = drv.start


-----------------------------------------------------------------------------
(* The rows the engine writes have a score *)

\* C28: every CurrencySummary row written by the engine has count >= 1
\* and weight > 0: the weight of each sample is positive, also for a
\* sample newer than the Sale the statistics are asked for, the
\* recalibration round keeps at least one sample, the row carries the
\* count and the weight of the samples kept, and the resolver finds a
\* value through the row (its weight is a score).
C28_WrittenRowsHaveScore ==
    probe.op = "stats"
    => /\ \A x \in Samples : RLt(RZero, x.weight)
       /\ Recalibrate(Samples, FirstStats) # {}
       /\ summaries # {}
       /\ \A r \in summaries :
             /\ r.count >= 1
             /\ r.count = Cardinality(Recalibrate(Samples, FirstStats))
             /\ RLt(RZero, r.weight)
             /\ Truthy(r.weight)
             /\ r.weight = probe.result.weight
       /\ \A v \in find_value_of(summaries, "Exalted Orb", "Standard",
                                 RInt(1)) :
             ~v.err /\ v.value # NoneRat

\* statistics asked for a Sale older than the samples: the recalibration
\* dropped a sample and the row written counts the others
C28_Witness ==
    /\ probe.op = "stats"
    /\ \A s \in sales : probe.sale_time < s.item_updated_at
    /\ Cardinality(Recalibrate(Samples, FirstStats)) < Cardinality(Samples)
    /\ \E r \in summaries :
          r.count = Cardinality(Recalibrate(Samples, FirstStats))

=============================================================================
